---- MODULE Spec2Model ----
(***************************************************************************)
(* Model of trancoder/video_transcoder.py: the probe analyzer              *)
(* (get_video_info), the bitrate policy (calculate_bitrate), the output    *)
(* validator (is_output_valid) and the per-file orchestrator               *)
(* (transcode_file, process_directory, __main__).                          *)
(*                                                                         *)
(* Durations are integers in milliseconds; bit rates are integers in bit/s *)
(* and kbit/s as in the code.  Python floats are modelled by exact         *)
(* arithmetic on these integers (binary64 rounding is not modelled).       *)
(* A frame rate is the pair [n, d] standing for the quotient n / d.        *)
(***************************************************************************)
EXTENDS Integers, Sequences, FiniteSets, TLC

VARIABLES
    inTree,     \* files under INPUT_DIR: relative path -> file
    outTree,    \* files under OUTPUT_DIR (outputs and Failed/): path -> file
    stats,      \* the global counters {processed, failed, skipped}
    log,        \* per source path, the trace of its processing in this run:
                \* the messages logged and the external programs invoked
    pending,    \* paths process_directory's rglob loop has still to yield
    pc,         \* "scan" | "summary" | "aborted" (uncaught exception);
                \* "call" | "returned" around a direct call of a function
    run,        \* number of the current invocation of the script
    vArgs,      \* arguments of a direct call of a function
    vRet,       \* its result, "none" before the call
    job         \* per source path, the encoder invocation built for it in
                \* this run (ffmpeg_cmd)

vars == <<inTree, outTree, stats, log, pending, pc, run, vArgs, vRet, job>>

(***************************************************************************)
(* JSON values of the prober's document.                                   *)
(* A numeric field is absent, null, a string that does not parse as a      *)
(* number ("bad"), or a number.                                            *)
(***************************************************************************)
Absent == [k |-> "absent", v |-> 0]
Null == [k |-> "null", v |-> 0]
Bad == [k |-> "bad", v |-> 0]
Num(n) == [k |-> "num", v |-> n]

\* Result of a Python expression: a value or the exception it raises.
Val(x) == [ok |-> TRUE, v |-> x, err |-> "none"]
Raise(e) == [ok |-> FALSE, v |-> 0, err |-> e]

\* float(d.get(key, 0)) and int(d.get(key, 0)): the default 0 when the key is
\* absent, TypeError on null (None), ValueError on a non-numeric string.
NumberOrDefault(f) ==
    CASE f.k = "absent" -> Val(0)
      [] f.k = "null" -> Raise("TypeError")
      [] f.k = "bad" -> Raise("ValueError")
      [] OTHER -> Val(f.v)

\* int(d[key]): KeyError when the key is absent.
RequiredInt(f) ==
    CASE f.k = "absent" -> Raise("KeyError")
      [] f.k = "null" -> Raise("TypeError")
      [] f.k = "bad" -> Raise("ValueError")
      [] OTHER -> Val(f.v)

\* The exceptions the two probing functions catch (lines 134, 138 and 208).
Caught == {"CalledProcessError", "JSONDecodeError", "ValueError", "KeyError"}

(***************************************************************************)
(* calculate_bitrate                                                       *)
(***************************************************************************)
FpsThreshold == 30
DefaultBase == 10000

\* Variant of FpsAbove: the threshold itself counts as above
FpsAtLeast(fps, t) ==
    IF fps.d > 0 THEN fps.n >= t * fps.d ELSE fps.n <= t * fps.d

\* fps > 30 for the quotient fps.n / fps.d (fps.d # 0)
FpsAbove(fps, t) ==
    IF fps.d > 0 THEN fps.n > t * fps.d ELSE fps.n < t * fps.d

base_bitrates(resolution) ==
    CASE resolution = "480p" -> 2000
      [] resolution = "720p" -> 5000
      [] resolution = "1080p" -> 10000
      [] resolution = "4k" -> 35000
      [] OTHER -> DefaultBase

\* int(base * 1.5) or int(base * 1.0)
calculate_bitrate(resolution, fps) ==
    IF FpsAbove(fps, FpsThreshold)
    THEN (base_bitrates(resolution) * 3) \div 2
    ELSE base_bitrates(resolution)

(***************************************************************************)
(* Frame-rate string: fps_str.split('/') and int() on each part.           *)
(* A string is a sequence of one-character strings.                        *)
(***************************************************************************)
Digits == {"0", "1", "2", "3", "4", "5", "6", "7", "8", "9"}

DigitVal(c) ==
    CASE c = "0" -> 0 [] c = "1" -> 1 [] c = "2" -> 2 [] c = "3" -> 3
      [] c = "4" -> 4 [] c = "5" -> 5 [] c = "6" -> 6 [] c = "7" -> 7
      [] c = "8" -> 8 [] OTHER -> 9

RECURSIVE Split(_, _)
\* s.split(sep): the parts of s between the separators (always at least one)
Split(s, sep) ==
    IF \A i \in 1..Len(s) : s[i] # sep
    THEN <<s>>
    ELSE LET i == CHOOSE j \in 1..Len(s) :
                      s[j] = sep /\ \A m \in 1..(j - 1) : s[m] # sep
         IN <<SubSeq(s, 1, i - 1)>> \o Split(SubSeq(s, i + 1, Len(s)), sep)

RECURSIVE DecimalValue(_)
DecimalValue(s) ==
    IF s = <<>> THEN 0
    ELSE 10 * DecimalValue(SubSeq(s, 1, Len(s) - 1)) + DigitVal(s[Len(s)])

\* int(s) accepts an optional sign followed by at least one digit
IsIntLiteral(s) ==
    LET body == IF s # <<>> /\ s[1] \in {"-", "+"} THEN Tail(s) ELSE s
    IN body # <<>> /\ \A i \in 1..Len(body) : body[i] \in Digits

IntValue(s) ==
    IF s[1] = "-" THEN 0 - DecimalValue(Tail(s))
    ELSE IF s[1] = "+" THEN DecimalValue(Tail(s))
    ELSE DecimalValue(s)

DefaultFps == [n |-> 30, d |-> 1]
DefaultFpsStr == <<"3", "0", "/", "1">>

\* Lines 100-106.  r_frame_rate is [k |-> "absent" | "null" | "str", s |-> chars].
\* A null value has no split method: AttributeError, which line 104 does not catch.
ParseFps(field) ==
    IF field.k = "null" THEN Raise("AttributeError")
    ELSE LET fps_str == IF field.k = "absent" THEN DefaultFpsStr ELSE field.s
             parts == Split(fps_str, "/")
         IN IF Len(parts) = 2 /\ IsIntLiteral(parts[1]) /\ IsIntLiteral(parts[2])
            THEN IF IntValue(parts[2]) # 0
                 THEN Val([n |-> IntValue(parts[1]), d |-> IntValue(parts[2])])
                 ELSE Val(DefaultFps)
            ELSE Val(DefaultFps)     \* ValueError caught at line 104

(***************************************************************************)
(* get_video_info                                                          *)
(***************************************************************************)
MinSourceSize == 1024

\* Variant of ClassifyHeight: the thresholds taken as exclusive
ClassifyHeightExclusive(height) ==
    IF height < 480 THEN "480p"
    ELSE IF height < 720 THEN "720p"
    ELSE IF height < 1080 THEN "1080p"
    ELSE IF height < 2160 THEN "4k"
    ELSE "unknown"

\* Lines 108-116
ClassifyHeight(height) ==
    IF height <= 480 THEN "480p"
    ELSE IF height <= 720 THEN "720p"
    ELSE IF height <= 1080 THEN "1080p"
    ELSE IF height <= 2160 THEN "4k"
    ELSE "unknown"

NoTag == "<absent>"
TagOr(tag, default) == IF tag = NoTag THEN default ELSE tag

\* Variant of HdrTypes: only the mastering display entry counts
HdrTypesMasteringOnly == {"Mastering display metadata"}

\* Line 126
HdrTypes == {"Mastering display metadata", "Content light level metadata"}

\* Lines 118-127
ColorInfo(vs) ==
    [colorprim |-> TagOr(vs.color_primaries, "bt709"),
     transfer |->
        IF vs.side_data_list.present
           /\ \E i \in 1..Len(vs.side_data_list.types) :
                  vs.side_data_list.types[i] \in HdrTypes
        THEN "smpte2084"
        ELSE TagOr(vs.color_transfer, "bt709"),
     colormatrix |-> TagOr(vs.color_space, "bt709")]

\* Index of the first stream tagged video, 0 when there is none (lines 85-89)
FirstVideo(streams) ==
    IF \E i \in 1..Len(streams) : streams[i].codec_type = "video"
    THEN CHOOSE i \in 1..Len(streams) :
             /\ streams[i].codec_type = "video"
             /\ \A j \in 1..(i - 1) : streams[j].codec_type # "video"
    ELSE 0

\* What the prober reports under -select_streams v:0: the first video stream only
SelectV0(streams) ==
    IF FirstVideo(streams) = 0 THEN <<>> ELSE <<streams[FirstVideo(streams)]>>

NoColor == [colorprim |-> "none", transfer |-> "none", colormatrix |-> "none"]

\* return None, None, None, None after stats["skipped"] += 1
ProbeSkip(probes) ==
    [status |-> "skip", resolution |-> "none", fps |-> [n |-> 0, d |-> 1],
     color_info |-> NoColor, duration |-> 0, probes |-> probes]

\* an exception that leaves get_video_info (no counter is touched)
ProbeRaise(probes) ==
    [status |-> "raise", resolution |-> "none", fps |-> [n |-> 0, d |-> 1],
     color_info |-> NoColor, duration |-> 0, probes |-> probes]

ProbeError(err, probes) ==
    IF err \in Caught THEN ProbeSkip(probes) ELSE ProbeRaise(probes)

\* Lines 96-133: the fields of the video stream, in the order the code reads them
AnalyzeStream(file, vs, probes) ==
    LET w == RequiredInt(vs.width)
        h == RequiredInt(vs.height)
        f == ParseFps(vs.r_frame_rate)
        d == NumberOrDefault(file.duration)
    IN IF ~w.ok THEN ProbeError(w.err, probes)
       ELSE IF ~h.ok THEN ProbeError(h.err, probes)
       ELSE IF ~f.ok THEN ProbeError(f.err, probes)
       ELSE IF ~d.ok THEN ProbeError(d.err, probes)
       ELSE [status |-> "ok", resolution |-> ClassifyHeight(h.v), fps |-> f.v,
             color_info |-> ColorInfo(vs), duration |-> d.v, probes |-> probes]

\* Variant of TooSmall: the threshold taken as a decimal kilobyte
TooSmallDecimal(file) == file.size < 1000

\* Line 62
TooSmall(file) == file.size < MinSourceSize

\* Lines 59-141.  probes counts the invocations of the external prober.
get_video_info(file) ==
    IF TooSmall(file) THEN ProbeSkip(0)
    ELSE IF file.probe = "error" THEN ProbeError("CalledProcessError", 1)
    ELSE IF file.probe = "badjson" THEN ProbeError("JSONDecodeError", 1)
    ELSE LET first == SelectV0(file.streams)
             probes == IF first = <<>> THEN 2 ELSE 1
             streams == IF first = <<>> THEN file.streams ELSE first
         IN IF FirstVideo(streams) = 0
            THEN ProbeSkip(probes)
            ELSE AnalyzeStream(file, streams[FirstVideo(streams)], probes)

(***************************************************************************)
(* is_output_valid                                                         *)
(***************************************************************************)
MinOutputSize == 102400

\* Index of the last stream of the given type, 0 when there is none: the loop
\* of lines 161-165 overwrites video_stream / audio_stream on every match.
LastOfType(streams, type) ==
    IF \E i \in 1..Len(streams) : streams[i].codec_type = type
    THEN CHOOSE i \in 1..Len(streams) :
             /\ streams[i].codec_type = type
             /\ \A j \in (i + 1)..Len(streams) : streams[j].codec_type # type
    ELSE 0

\* Variant of DurationTooShort: the 0.5% tolerance left out
DurationTooShortExact(output_duration, input_duration) ==
    input_duration > 0 /\ output_duration < input_duration

\* Line 186: input_duration > 0 and output_duration < input_duration * 0.995
DurationTooShort(output_duration, input_duration) ==
    input_duration > 0 /\ 1000 * output_duration < 995 * input_duration

\* Lines 191 and 195: key presence only
VideoMetadataPresent(vs) ==
    vs.width.k # "absent" /\ vs.height.k # "absent" /\ vs.pix_fmt

AudioMetadataPresent(as) == as.sample_rate /\ as.channels

\* Line 202: format_bitrate < expected_bitrate * 0.5
BitrateTooLow(format_bitrate, expected_bitrate) ==
    2 * format_bitrate < expected_bitrate

ValidationError(err) == IF err \in Caught THEN "reject" ELSE "raise"

\* Variant of StreamsFound: a second stream of a kind counts as an error
StreamsFoundOnce(streams) ==
    /\ Cardinality({i \in 1..Len(streams) : streams[i].codec_type = "video"}) = 1
    /\ Cardinality({i \in 1..Len(streams) : streams[i].codec_type = "audio"}) = 1

\* Lines 158-173: both a video and an audio stream were found
StreamsFound(streams) ==
    LastOfType(streams, "video") # 0 /\ LastOfType(streams, "audio") # 0

\* Lines 175-207, once a video and an audio stream were found
CheckStreams(file, vs, as, input_duration, resolution, fps) ==
    IF vs.codec_name # "hevc" THEN "reject"
    ELSE IF as.codec_name # "aac" THEN "reject"
    ELSE LET od == NumberOrDefault(file.duration)
             br == NumberOrDefault(file.bit_rate)
         IN IF ~od.ok THEN ValidationError(od.err)
            ELSE IF DurationTooShort(od.v, input_duration) THEN "reject"
            ELSE IF ~VideoMetadataPresent(vs) THEN "reject"
            ELSE IF ~AudioMetadataPresent(as) THEN "reject"
            ELSE IF ~br.ok THEN ValidationError(br.err)
            ELSE IF BitrateTooLow(br.v \div 1000,
                                  calculate_bitrate(resolution, fps))
                 THEN "reject"
                 ELSE "valid"

\* Lines 147-155: the prober is invoked unless the size check rejects first
ValidatorProbes(file) == IF file.size < MinOutputSize THEN 0 ELSE 1

\* Lines 143-210: "valid" (True), "reject" (False) or "raise" (an exception
\* that the except clause of line 208 does not catch)
is_output_valid(file, input_duration, resolution, fps) ==
    IF file.size < MinOutputSize THEN "reject"
    ELSE IF file.probe = "error" THEN ValidationError("CalledProcessError")
    ELSE IF file.probe = "badjson" THEN ValidationError("JSONDecodeError")
    ELSE IF ~StreamsFound(file.streams) THEN "reject"
    ELSE CheckStreams(file,
                      file.streams[LastOfType(file.streams, "video")],
                      file.streams[LastOfType(file.streams, "audio")],
                      input_duration, resolution, fps)

(***************************************************************************)
(* Paths.  A path is [dir, stem, ext] relative to its root.                *)
(***************************************************************************)
VIDEO_EXTENSIONS == {"mp4", "mkv", "avi", "mov", "mxf", "flv", "wmv"}

\* str.lower() on the suffixes that occur
Lower(ext) ==
    CASE ext = "MKV" -> "mkv"
      [] ext = "MP4" -> "mp4"
      [] ext = "TXT" -> "txt"
      [] OTHER -> ext

\* Line 292: file_path.suffix.lower() in VIDEO_EXTENSIONS
IsRecognized(p) == Lower(p.ext) \in VIDEO_EXTENSIONS

\* Lines 228-229: OUTPUT_DIR / input_path.relative_to(INPUT_DIR).with_suffix('.mp4')
output_path(p) == [dir |-> p.dir, stem |-> p.stem, ext |-> "mp4"]

\* Lines 283-285: OUTPUT_DIR / "Failed" / input_path.name
failed_path(p) == [dir |-> "Failed", stem |-> p.stem, ext |-> p.ext]

(***************************************************************************)
(* Files.  A file is the prober's document for it plus its origin          *)
(* [how, path, run]: a source file, a file written by the encoder, or a    *)
(* file that was in the output tree before the first run.                  *)
(***************************************************************************)
Remove(tree, p) == [q \in DOMAIN tree \ {p} |-> tree[q]]
Put(tree, p, file) == [q \in DOMAIN tree \cup {p} |-> IF q = p THEN file ELSE tree[q]]

AudioBitrate == 256

\* What FFMPEG_BASE asks the encoder for (lines 50-55, 250-253): every audio
\* stream as aac and every video stream as hevc, audio mapped first, the video
\* at bitrate kbit/s and the audio at 256 kbit/s, over the source's duration.
IsAudio(st) == st.codec_type = "audio"
IsVideo(st) == st.codec_type = "video"

AsAac(st) == [st EXCEPT !.codec_name = "aac", !.sample_rate = TRUE, !.channels = TRUE]
AsHevc(st) == [st EXCEPT !.codec_name = "hevc", !.pix_fmt = TRUE]

AllAsAac(seq) == [i \in 1..Len(seq) |-> AsAac(seq[i])]
AllAsHevc(seq) == [i \in 1..Len(seq) |-> AsHevc(seq[i])]

EncoderOutput(src, p, bitrate, r) ==
    [size |-> ((bitrate + AudioBitrate) * src.duration.v) \div 8,
     probe |-> "ok",
     streams |-> AllAsAac(SelectSeq(src.streams, IsAudio))
                 \o AllAsHevc(SelectSeq(src.streams, IsVideo)),
     duration |-> src.duration,
     bit_rate |-> Num((bitrate + AudioBitrate) * 1000),
     origin |-> [how |-> "encoded", path |-> p, run |-> r]]

\* What a failed encoder may leave behind at the output path: a truncated file
PartialOutput(src, p, r) ==
    [size |-> 0, probe |-> "error", streams |-> <<>>, duration |-> Absent,
     bit_rate |-> Absent, origin |-> [how |-> "partial", path |-> p, run |-> r]]

(***************************************************************************)
(* transcode_file.  S is the state the call works on:                      *)
(* [inT, outT, st, lg, abort, cmd], lg the messages logged for this file   *)
(* and cmd the encoder invocation built for it.                            *)
(* env is what the environment decides during the call: the encoder's exit *)
(* status, whether a failing encoder leaves a partial output, and whether  *)
(* the quarantine mkdir/move succeeds.                                     *)
(***************************************************************************)
Bump(st, key) == [st EXCEPT ![key] = @ + 1]

Logged(S, msg) == [S EXCEPT !.lg = Append(@, msg)]

\* n invocations of an external program
Invoked(S, program, n) == [S EXCEPT !.lg = @ \o [i \in 1..n |-> program]]

\* Line 222: not resolution or not fps or not input_duration
EarlyReturn(info) ==
    info.status # "ok" \/ info.fps.n = 0 \/ info.duration = 0

\* Lines 59-141 as seen from transcode_file: the skipped counter of lines
\* 64, 93, 136 and 140, or the exception that propagates
ProbeStage(S, f) ==
    LET info == get_video_info(S.inT[f])
        S1 == Invoked(Logged(S, "Analyzing"), "ffprobe", info.probes)
    IN IF info.status = "raise" THEN [S1 EXCEPT !.abort = TRUE]
       ELSE IF info.status = "skip" THEN [S1 EXCEPT !.st = Bump(@, "skipped")]
       ELSE S1

\* Variant of QuarantineMove: the source is copied, not moved
QuarantineCopy(S, f, env) ==
    IF env.moveOk
    THEN Logged([S EXCEPT !.outT = Put(@, failed_path(f), S.inT[f])],
                "Moved failed file")
    ELSE [S EXCEPT !.abort = TRUE]

\* Lines 284-286: failed_dir.mkdir, shutil.move (which replaces a file already
\* at the destination); an OSError of either leaves the except block
QuarantineMove(S, f, env) ==
    IF env.moveOk
    THEN Logged([S EXCEPT !.inT = Remove(@, f),
                          !.outT = Put(@, failed_path(f), S.inT[f])],
                "Moved failed file")
    ELSE [S EXCEPT !.abort = TRUE]

\* Variant of EncodeFailed: the encoder is tried a second time before the
\* file is given up
EncodeFailedRetry(S, f, env, r) ==
    LET S1 == Logged(Invoked(S, "ffmpeg", 1), "FFmpeg failed")
        S2 == [S1 EXCEPT !.st = Bump(@, "failed"),
                         !.outT = IF env.partial
                                  THEN Put(@, output_path(f),
                                           PartialOutput(S.inT[f], f, r))
                                  ELSE @]
    IN QuarantineMove(S2, f, env)

\* Lines 280-286
EncodeFailed(S, f, env, r) ==
    LET S1 == Logged(S, "FFmpeg failed")
        S2 == [S1 EXCEPT !.st = Bump(@, "failed"),
                         !.outT = IF env.partial
                                  THEN Put(@, output_path(f),
                                           PartialOutput(S.inT[f], f, r))
                                  ELSE @]
    IN QuarantineMove(S2, f, env)

\* Lines 278-279
EncodeFinished(S, f, info, r) ==
    LET bitrate == calculate_bitrate(info.resolution, info.fps)
        S1 == [S EXCEPT !.outT = Put(@, output_path(f),
                                     EncoderOutput(S.inT[f], f, bitrate, r)),
                        !.st = Bump(@, "processed")]
    IN Logged(S1, "Finished")

CpuCount == 8
MaxThreads == 12

\* Lines 242-248: the x265 parameter string, as its key/value pairs
x265_params(color_info) ==
    [threads |-> IF CpuCount < MaxThreads THEN CpuCount ELSE MaxThreads,
     level |-> "5.1", profile |-> "main10", ctu |-> "64",
     tu_intra_depth |-> "2",
     colorprim |-> color_info.colorprim,
     transfer |-> color_info.transfer,
     colormatrix |-> color_info.colormatrix]

\* Lines 250-253: input, -x265-params, -b:v and output of ffmpeg_cmd
ffmpeg_cmd(f, info) ==
    [built |-> TRUE, input |-> f, params |-> x265_params(info.color_info),
     bitrate |-> calculate_bitrate(info.resolution, info.fps),
     output |-> output_path(f)]

\* No encoder invocation was built
NoJob ==
    [built |-> FALSE, input |-> [dir |-> "", stem |-> "", ext |-> ""],
     params |-> x265_params([colorprim |-> "none", transfer |-> "none",
                             colormatrix |-> "none"]),
     bitrate |-> 0, output |-> [dir |-> "", stem |-> "", ext |-> ""]]

\* Lines 242-286
EncodeStage(S, f, info, env, r) ==
    LET S0 == [S EXCEPT !.cmd = ffmpeg_cmd(f, info)]
        S1 == Invoked(Logged(S0, "Starting FFmpeg"), "ffmpeg", 1)
    IN IF env.exit = 0
       THEN EncodeFinished(S1, f, info, r)
       ELSE EncodeFailed(S1, f, env, r)

\* Variant of ResumeStage: no return after a valid output is counted
ResumeStageFallsThrough(S, f, info) ==
    IF output_path(f) \notin DOMAIN S.outT THEN [s |-> S, encode |-> TRUE]
    ELSE LET verdict == is_output_valid(S.outT[output_path(f)], info.duration,
                                        info.resolution, info.fps)
             S1 == Invoked(Logged(S, "Validating output file"), "ffprobe",
                           ValidatorProbes(S.outT[output_path(f)]))
         IN CASE verdict = "raise" ->
                    [s |-> [S1 EXCEPT !.abort = TRUE], encode |-> FALSE]
              [] verdict = "valid" ->
                    [s |-> Logged([S1 EXCEPT !.st = Bump(@, "skipped")],
                                  "Skipping: Output is valid"),
                     encode |-> TRUE]
              [] OTHER ->
                    [s |-> Logged([S1 EXCEPT !.outT = Remove(@, output_path(f))],
                                  "Overwriting"),
                     encode |-> TRUE]

\* Variant of ResumeStage: the rejected output is left for the encoder to
\* overwrite
ResumeStageKeepsRejected(S, f, info) ==
    IF output_path(f) \notin DOMAIN S.outT THEN [s |-> S, encode |-> TRUE]
    ELSE LET verdict == is_output_valid(S.outT[output_path(f)], info.duration,
                                        info.resolution, info.fps)
             S1 == Invoked(Logged(S, "Validating output file"), "ffprobe",
                           ValidatorProbes(S.outT[output_path(f)]))
         IN CASE verdict = "raise" ->
                    [s |-> [S1 EXCEPT !.abort = TRUE], encode |-> FALSE]
              [] verdict = "valid" ->
                    [s |-> Logged([S1 EXCEPT !.st = Bump(@, "skipped")],
                                  "Skipping: Output is valid"),
                     encode |-> FALSE]
              [] OTHER ->
                    [s |-> Logged(S1, "Overwriting"), encode |-> TRUE]

\* Lines 233-240: TRUE when transcode_file goes on to encode
ResumeStage(S, f, info) ==
    IF output_path(f) \notin DOMAIN S.outT THEN [s |-> S, encode |-> TRUE]
    ELSE LET verdict == is_output_valid(S.outT[output_path(f)], info.duration,
                                        info.resolution, info.fps)
             S1 == Invoked(Logged(S, "Validating output file"), "ffprobe",
                           ValidatorProbes(S.outT[output_path(f)]))
         IN CASE verdict = "raise" ->
                    [s |-> [S1 EXCEPT !.abort = TRUE], encode |-> FALSE]
              [] verdict = "valid" ->
                    [s |-> Logged([S1 EXCEPT !.st = Bump(@, "skipped")],
                                  "Skipping: Output is valid"),
                     encode |-> FALSE]
              [] OTHER ->
                    [s |-> Logged([S1 EXCEPT !.outT = Remove(@, output_path(f))],
                                  "Overwriting"),
                     encode |-> TRUE]

\* Lines 217-286
transcode_file(S, f, env, r) ==
    LET info == get_video_info(S.inT[f])
        S1 == ProbeStage(Logged(S, "Processing"), f)
    IN IF S1.abort THEN S1
       ELSE IF EarlyReturn(info) THEN Logged(S1, "Skipping: Could not detect")
       ELSE LET R == ResumeStage(S1, f, info)
            IN IF R.encode THEN EncodeStage(R.s, f, info, env, r) ELSE R.s

(***************************************************************************)
(* The input universe.                                                     *)
(***************************************************************************)
MaxFiles == 2
MaxRuns == 2
MaxStreams == 3

Chars24 == <<"2", "4", "/", "1">>

Stream(type, codec, meta) ==
    [codec_type |-> type, codec_name |-> codec,
     width |-> IF meta /\ type = "video" THEN Num(1920) ELSE Absent,
     height |-> IF meta /\ type = "video" THEN Num(1080) ELSE Absent,
     pix_fmt |-> meta /\ type = "video",
     r_frame_rate |-> [k |-> "str", s |-> Chars24],
     color_primaries |-> NoTag, color_transfer |-> NoTag, color_space |-> NoTag,
     side_data_list |-> [present |-> FALSE, types |-> <<>>],
     sample_rate |-> meta /\ type = "audio",
     channels |-> meta /\ type = "audio"]

NoPath == [dir |-> "", stem |-> "", ext |-> ""]

Doc(size, probe, streams, duration, bit_rate) ==
    [size |-> size, probe |-> probe, streams |-> streams, duration |-> duration,
     bit_rate |-> bit_rate, origin |-> [how |-> "pre", path |-> NoPath, run |-> 0]]

H264(height) == [Stream("video", "h264", TRUE) EXCEPT !.height = height]
Aac == Stream("audio", "aac", TRUE)

\* Source files: a name and the document the prober gives for the file
SourceKinds ==
    [tiny |-> Doc(1023, "ok", <<H264(Num(1080)), Aac>>, Num(10000), Num(8000000)),
     unprobeable |-> Doc(1024, "error", <<>>, Absent, Absent),
     audioOnly |-> Doc(1024, "ok", <<Aac>>, Num(10000), Num(256000)),
     noDuration |-> Doc(5000000, "ok", <<H264(Num(1080)), Aac>>, Absent, Num(8000000)),
     nullHeight |-> Doc(5000000, "ok", <<H264(Null), Aac>>, Num(10000), Num(8000000)),
     hd |-> Doc(5000000, "ok", <<H264(Num(1080)), Aac>>, Num(10000), Num(8000000)),
     sd |-> Doc(5000000, "ok", <<Aac, H264(Num(480))>>, Num(20000), Num(2000000))]

\* Files already in the output tree before the first run
PreOutputs ==
    [complete |-> Doc(12820000, "ok",
                      <<Aac, Stream("video", "hevc", TRUE)>>,
                      Num(10000), Num(10256000)),
     truncated |-> Doc(12000000, "ok",
                       <<Aac, Stream("video", "hevc", TRUE)>>,
                       Num(9000), Num(10256000)),
     nullDuration |-> Doc(12820000, "ok",
                          <<Aac, Stream("video", "hevc", TRUE)>>,
                          Null, Num(10256000))]

Path(dir, stem, ext) == [dir |-> dir, stem |-> stem, ext |-> ext]

Paths ==
    {Path("a", "x", "mkv"), Path("a", "x", "mp4"), Path("Failed", "x", "mkv"),
     Path("a", "x", "TXT")}

PrePaths == {Path("a", "x", "mp4")}

AsSource(doc, p) ==
    [doc EXCEPT !.origin = [how |-> "source", path |-> p, run |-> 0]]

\* The encoder's exit status; after a failure, whether it left a partial
\* output and whether the quarantine move succeeds
Envs ==
    {e \in [exit : {0, 1}, partial : BOOLEAN, moveOk : BOOLEAN] :
        e.exit = 0 => (~e.partial /\ e.moveOk)}

NoStats == [processed |-> 0, failed |-> 0, skipped |-> 0]
NoLog == [p \in Paths |-> <<>>]
NoJobs == [p \in Paths |-> NoJob]
NoCall == [file |-> Doc(0, "ok", <<>>, Absent, Absent), input_duration |-> 0,
           resolution |-> "none", fps |-> DefaultFps]

\* Lines 291-292: the files rglob yields that pass the filter
Enumerated(tree) == {p \in DOMAIN tree : IsRecognized(p)}

InitTrees(kinds, pre) ==
    /\ \E S \in SUBSET Paths :
          /\ Cardinality(S) <= MaxFiles
          /\ \E k \in [S -> kinds] :
                inTree = [p \in S |-> AsSource(SourceKinds[k[p]], p)]
    /\ \E T \in SUBSET PrePaths :
          \E k \in [T -> pre] : outTree = [p \in T |-> PreOutputs[k[p]]]

InitRun ==
    /\ stats = NoStats
    /\ log = NoLog
    /\ pending = Enumerated(inTree)
    /\ pc = "scan"
    /\ run = 1
    /\ vArgs = NoCall
    /\ vRet = "none"
    /\ job = NoJobs

Init ==
    /\ InitTrees(DOMAIN SourceKinds, DOMAIN PreOutputs)
    /\ InitRun

(***************************************************************************)
(* process_directory and __main__                                          *)
(***************************************************************************)
\* Line 293, for the file the loop yields next
TranscodeFile(f) ==
    /\ pc = "scan"
    /\ f \in pending
    /\ \E env \in Envs :
          LET R == transcode_file([inT |-> inTree, outT |-> outTree, st |-> stats,
                                   lg |-> <<>>, abort |-> FALSE, cmd |-> NoJob],
                                  f, env, run)
          IN /\ inTree' = R.inT
             /\ outTree' = R.outT
             /\ stats' = R.st
             /\ log' = [log EXCEPT ![f] = R.lg]
             /\ job' = [job EXCEPT ![f] = R.cmd]
             /\ pc' = IF R.abort THEN "aborted" ELSE "scan"
    /\ pending' = pending \ {f}
    /\ UNCHANGED <<run, vArgs, vRet>>

\* Line 298: the loop is over and the summary is logged
Summary ==
    /\ pc = "scan"
    /\ pending = {}
    /\ pc' = "summary"
    /\ UNCHANGED <<inTree, outTree, stats, log, pending, run, vArgs, vRet, job>>

\* The script is started again on the trees the previous run left
Rerun ==
    /\ pc = "summary"
    /\ run < MaxRuns
    /\ run' = run + 1
    /\ stats' = NoStats
    /\ log' = NoLog
    /\ pending' = Enumerated(inTree)
    /\ pc' = "scan"
    /\ job' = NoJobs
    /\ UNCHANGED <<inTree, outTree, vArgs, vRet>>

Next ==
    \/ \E f \in Paths : TranscodeFile(f)
    \/ Summary

Spec == Init /\ [][Next]_vars

(***************************************************************************)
(* Two runs of the script on the same trees                                *)
(***************************************************************************)
RerunKinds ==
    [hd |-> SourceKinds.hd, sd |-> SourceKinds.sd,
     noDuration |-> SourceKinds.noDuration]

InitRerun ==
    /\ \E S \in SUBSET Paths :
          /\ Cardinality(S) <= MaxFiles
          /\ \E k \in [S -> DOMAIN RerunKinds] :
                inTree = [p \in S |-> AsSource(RerunKinds[k[p]], p)]
    /\ \E T \in SUBSET PrePaths :
          \E k \in [T -> {"complete"}] : outTree = [p \in T |-> PreOutputs[k[p]]]
    /\ InitRun

NextRerun ==
    \/ \E f \in Paths : TranscodeFile(f)
    \/ Summary
    \/ Rerun

SpecRerun == InitRerun /\ [][NextRerun]_vars

(***************************************************************************)
(* Direct calls of is_output_valid                                         *)
(***************************************************************************)
ValidatorStreams ==
    {Stream("video", "hevc", TRUE), Stream("video", "h264", TRUE),
     Stream("video", "hevc", FALSE), Stream("audio", "aac", TRUE),
     Stream("audio", "mp3", TRUE), Stream("subtitle", "mov_text", TRUE)}

StreamLists == UNION {[1..n -> ValidatorStreams] : n \in 0..MaxStreams}

Fps24 == [n |-> 24, d |-> 1]
Fps60 == [n |-> 60, d |-> 1]

\* Any list of streams, with the other fields of a complete output
CallsByStreams ==
    {[file |-> Doc(12820000, "ok", ss, dur, Num(10256000)),
      input_duration |-> d, resolution |-> "1080p", fps |-> Fps24] :
        ss \in StreamLists, dur \in {Num(9940), Num(9960), Null}, d \in {0, 10000}}

\* One audio and one video stream, with any size, probe outcome and fields
CallsByFields ==
    {[file |-> Doc(size, probe, <<Stream("audio", "aac", TRUE),
                                  Stream("video", "hevc", TRUE)>>, dur, br),
      input_duration |-> d, resolution |-> "1080p", fps |-> fps] :
        size \in {102399, 102400}, probe \in {"ok", "error", "badjson"},
        dur \in {Absent, Null, Bad, Num(0), Num(9940), Num(9949), Num(9950),
                 Num(9960)},
        br \in {Absent, Null, Bad, Num(4999999), Num(5000000), Num(10256000)},
        d \in {-10000, 0, 10000}, fps \in {Fps24, Fps60}}

InitValidator ==
    /\ inTree = <<>>
    /\ outTree = <<>>
    /\ stats = NoStats
    /\ log = NoLog
    /\ pending = {}
    /\ pc = "summary"
    /\ run = 1
    /\ vArgs \in CallsByStreams \cup CallsByFields
    /\ vRet = "none"
    /\ job = NoJobs

Validate ==
    /\ vRet = "none"
    /\ vArgs # NoCall
    /\ vRet' = is_output_valid(vArgs.file, vArgs.input_duration,
                               vArgs.resolution, vArgs.fps)
    /\ UNCHANGED <<inTree, outTree, stats, log, pending, pc, run, vArgs, job>>

NextValidator == Validate

SpecValidator == InitValidator /\ [][NextValidator]_vars

(***************************************************************************)
(* One run on a source with any colour tags and side data                  *)
(***************************************************************************)
SideDataLists ==
    {[present |-> FALSE, types |-> <<>>], [present |-> TRUE, types |-> <<>>],
     [present |-> TRUE, types |-> <<"Mastering display metadata">>],
     [present |-> TRUE, types |-> <<"Content light level metadata">>],
     [present |-> TRUE, types |-> <<"DOVI configuration record">>],
     [present |-> TRUE, types |-> <<"DOVI configuration record",
                                    "Content light level metadata">>]}

ColorStreams ==
    {[H264(Num(2160)) EXCEPT !.color_primaries = p, !.color_transfer = t,
                             !.color_space = c, !.side_data_list = sd] :
        p \in {NoTag, "bt2020"}, t \in {NoTag, "arib-std-b67", "smpte2084"},
        c \in {NoTag, "bt2020nc"}, sd \in SideDataLists}

InitColor ==
    /\ \E vs \in ColorStreams :
          inTree = [p \in {Path("a", "x", "mkv")} |->
                       AsSource(Doc(5000000, "ok", <<Aac, vs>>, Num(10000),
                                    Num(8000000)), p)]
    /\ outTree = <<>>
    /\ InitRun

NextColor ==
    \/ \E f \in Paths : TranscodeFile(f)
    \/ Summary

SpecColor == InitColor /\ [][NextColor]_vars

(***************************************************************************)
(* Direct calls of calculate_bitrate                                       *)
(***************************************************************************)
Resolutions == {"480p", "720p", "1080p", "4k", "unknown"}

\* Frame rates below, at and above 30, as integers and as quotients
FrameRates ==
    {[n |-> n, d |-> d] :
        n \in {24, 25, 30, 31, 60, 61, 24000, 30000, 30030, 30031, 60000},
        d \in {1, 2, 1001}}

InitBitrate ==
    /\ inTree = <<>>
    /\ outTree = <<>>
    /\ stats = NoStats
    /\ log = NoLog
    /\ pending = {}
    /\ pc = "call calculate_bitrate"
    /\ run = 1
    /\ vArgs \in [resolution : Resolutions, fps : FrameRates]
    /\ vRet = "none"
    /\ job = NoJobs

Bitrate ==
    /\ pc = "call calculate_bitrate"
    /\ vRet' = calculate_bitrate(vArgs.resolution, vArgs.fps)
    /\ pc' = "calculate_bitrate returned"
    /\ UNCHANGED <<inTree, outTree, stats, log, pending, run, vArgs, job>>

NextBitrate == Bitrate

SpecBitrate == InitBitrate /\ [][NextBitrate]_vars

(***************************************************************************)
(* Direct calls of get_video_info                                          *)
(***************************************************************************)
Heights == {1, 479, 480, 481, 719, 720, 721, 1079, 1080, 1081, 2159, 2160,
            2161, 4320}

Str(chars) == [k |-> "str", s |-> chars]

\* r_frame_rate as the prober may report it, and as a damaged document may
FrameRateFields ==
    {[k |-> "absent", s |-> <<>>], [k |-> "null", s |-> <<>>],
     Str(<<"2", "4", "/", "1">>), Str(<<"6", "0", "/", "1">>),
     Str(<<"3", "0", "0", "0", "0", "/", "1", "0", "0", "1">>),
     Str(<<"0", "/", "0">>), Str(<<"3", "0", "/", "0">>),
     Str(<<"0", "/", "1">>), Str(<<"-", "3", "0", "/", "1">>),
     Str(<<"a", "b", "c">>), Str(<<"3", "0">>),
     Str(<<"2", "4", "/", "1", "/", "1">>), Str(<<>>),
     Str(<<"2", ".", "5", "/", "1">>)}

\* A video of every height with every frame-rate field
FilesByStream ==
    {Doc(5000000, "ok",
         <<Aac, [H264(Num(h)) EXCEPT !.r_frame_rate = r]>>,
         Num(10000), Num(8000000)) :
        h \in Heights, r \in FrameRateFields}

\* One video stream, with any size, probe outcome and numeric fields
FilesByFields ==
    {Doc(size, probe,
         <<[H264(h) EXCEPT !.width = w]>>, dur, Num(8000000)) :
        size \in {1023, 1024}, probe \in {"ok", "error", "badjson"},
        w \in {Absent, Null, Bad, Num(1920)},
        h \in {Absent, Null, Bad, Num(1080)},
        dur \in {Absent, Null, Bad, Num(0), Num(10000)}}

InitProbe ==
    /\ inTree = <<>>
    /\ outTree = <<>>
    /\ stats = NoStats
    /\ log = NoLog
    /\ pending = {}
    /\ pc = "call get_video_info"
    /\ run = 1
    /\ vArgs \in [file : FilesByStream \cup FilesByFields]
    /\ vRet = "none"
    /\ job = NoJobs

Probe ==
    /\ pc = "call get_video_info"
    /\ vRet' = get_video_info(vArgs.file)
    /\ pc' = "get_video_info returned"
    /\ UNCHANGED <<inTree, outTree, stats, log, pending, run, vArgs, job>>

NextProbe == Probe

SpecProbe == InitProbe /\ [][NextProbe]_vars

(***************************************************************************)
(* Properties                                                              *)
(***************************************************************************)
Range(seq) == {seq[i] : i \in DOMAIN seq}

Total(st) == st.processed + st.failed + st.skipped

\* The files handed to transcode_file so far in this run
Handed == {p \in Paths : log[p] # <<>>}

\* This step is the call transcode_file(f)
Handles(f) == f \in pending /\ f \notin pending'

\* C1: every file handed to transcode_file moves exactly one of the three
\* counters by one, so while the run is alive processed + failed + skipped
\* equals the number of files handed to transcode_file.
C1_OneCounterPerFile ==
    pc \in {"scan", "summary"} => Total(stats) = Cardinality(Handed)

\* C2: when the encoder exits non-zero for f and transcode_file returns, failed
\* has grown by exactly one, processed and skipped are unchanged, the source
\* file is in the quarantine directory and no file is left at f.
C2_FailedEncodeQuarantines ==
    [][\A f \in Paths :
          (Handles(f) /\ "FFmpeg failed" \in Range(log'[f]) /\ pc' = "scan")
          => /\ stats' = [stats EXCEPT !.failed = @ + 1]
             /\ f \notin DOMAIN inTree'
             /\ failed_path(f) \in DOMAIN outTree'
             /\ outTree'[failed_path(f)] = inTree[f]]_vars

C2_Witness ==
    \E f \in Paths :
        /\ "FFmpeg failed" \in Range(log[f])
        /\ pc = "scan"
        /\ stats.failed = 1
        /\ f \notin DOMAIN inTree
        /\ failed_path(f) \in DOMAIN outTree
        /\ outTree[failed_path(f)].origin = [how |-> "source", path |-> f, run |-> 0]

\* C3: a second run on the trees the first run left processes no file.
C3_SecondRunProcessesNothing == run = 2 => stats.processed = 0

\* C4: for a source file below 1024 bytes the prober and the encoder are not
\* invoked, skipped grows by one and nothing else changes: no validation or
\* deletion of an existing output, no encode.
C4_TooSmallIsProbeSkip ==
    [][\A f \in Paths :
          (Handles(f) /\ inTree[f].size < 1024)
          => /\ log'[f] = <<"Processing", "Analyzing", "Skipping: Could not detect">>
             /\ stats' = [stats EXCEPT !.skipped = @ + 1]
             /\ inTree' = inTree
             /\ outTree' = outTree
             /\ pc' = "scan"]_vars

C4_Witness ==
    \E f \in DOMAIN inTree :
        /\ inTree[f].size = 1023
        /\ output_path(f) \in DOMAIN outTree
        /\ log[f] # <<>>
        /\ stats.skipped = 1

\* C5: no per-file outcome aborts the run.
C5_RunNeverAborts == pc # "aborted"

\* C6: when the quarantine mkdir or move fails after a failed encode, the
\* run goes on with the next file.
C6_MoveFailureTolerated ==
    \A f \in Paths :
        ("FFmpeg failed" \in Range(log[f])
         /\ "Moved failed file" \notin Range(log[f]))
        => pc # "aborted"

\* C7: two distinct recognized input paths never share an output path.
C7_OutputPathsDistinct ==
    \A p, q \in Enumerated(inTree) :
        p # q => output_path(p) # output_path(q)

(* Direct calls of the validator *)
Called == vRet # "none"

CountOfType(streams, type) ==
    Cardinality({i \in 1..Len(streams) : streams[i].codec_type = type})

TheLast(streams, type) ==
    streams[CHOOSE i \in 1..Len(streams) :
                /\ streams[i].codec_type = type
                /\ \A j \in 1..Len(streams) :
                      streams[j].codec_type = type => j <= i]

\* The duration the probe of the output reports, in ms (0 when absent)
ReportedDuration(file) == file.duration.v

\* Every check of the validator other than the duration check passes
OtherChecksPass(a) ==
    /\ a.file.size >= 100 * 1024
    /\ a.file.probe = "ok"
    /\ CountOfType(a.file.streams, "video") >= 1
    /\ CountOfType(a.file.streams, "audio") >= 1
    /\ TheLast(a.file.streams, "video").codec_name = "hevc"
    /\ TheLast(a.file.streams, "audio").codec_name = "aac"
    /\ a.file.duration.k \in {"num", "absent"}
    /\ TheLast(a.file.streams, "video").width.k # "absent"
    /\ TheLast(a.file.streams, "video").height.k # "absent"
    /\ TheLast(a.file.streams, "video").pix_fmt
    /\ TheLast(a.file.streams, "audio").sample_rate
    /\ TheLast(a.file.streams, "audio").channels
    /\ a.file.bit_rate.k \in {"num", "absent"}
    /\ 2 * (a.file.bit_rate.v \div 1000)
          >= (IF a.fps.n > 30 * a.fps.d THEN 15000 ELSE 10000)

C9_ExactlyOneOfEach ==
    vRet = "valid"
    => /\ CountOfType(vArgs.file.streams, "video") = 1
       /\ CountOfType(vArgs.file.streams, "audio") = 1

\* C9 as amended: an output without a video stream or without an audio stream
\* is rejected, and an output with one or more of each is accepted exactly
\* when the last video and the last audio stream pass the other checks.
C9_AtLeastOneOfEach ==
    Called
    => /\ (vRet = "valid"
              => /\ CountOfType(vArgs.file.streams, "video") >= 1
                 /\ CountOfType(vArgs.file.streams, "audio") >= 1)
       /\ (CountOfType(vArgs.file.streams, "video") = 0
             \/ CountOfType(vArgs.file.streams, "audio") = 0)
              => vRet = "reject"
       /\ (OtherChecksPass(vArgs) /\ vArgs.input_duration = 0)
              => vRet = "valid"

C9_Witness ==
    /\ vRet = "valid"
    /\ CountOfType(vArgs.file.streams, "video") = 2
    /\ CountOfType(vArgs.file.streams, "audio") = 1

\* C10: no error raised while validating leaves is_output_valid.
C10_ValidationNeverRaises == vRet # "raise"


(* Direct calls of calculate_bitrate and get_video_info *)
BitrateReturned == pc = "calculate_bitrate returned"
ProbeReturned == pc = "get_video_info returned"

\* C11: calculate_bitrate returns floor(base * m), base from the table
\* 480p 2000, 720p 5000, 1080p 10000, 4k 35000, anything else 10000, and
\* m = 1.5 when fps > 30 strictly, 1.0 otherwise (fps = 30 included)
C11_BitrateFromTable ==
    BitrateReturned =>
        LET r == vArgs.resolution
            fps == vArgs.fps
            base == IF r = "480p" THEN 2000
                    ELSE IF r = "720p" THEN 5000
                    ELSE IF r = "1080p" THEN 10000
                    ELSE IF r = "4k" THEN 35000
                    ELSE 10000
            strictlyAbove == fps.n > 30 * fps.d
        IN /\ vRet = IF strictlyAbove THEN (base * 15) \div 10 ELSE base
           /\ (r = "1080p" /\ fps = [n |-> 24, d |-> 1]) => vRet = 10000
           /\ (r = "1080p" /\ fps = [n |-> 30, d |-> 1]) => vRet = 10000
           /\ (r = "1080p" /\ fps = [n |-> 60, d |-> 1]) => vRet = 15000
           /\ (r = "4k" /\ fps = [n |-> 60, d |-> 1]) => vRet = 52500
           /\ (r = "unknown" /\ fps = [n |-> 24, d |-> 1]) => vRet = 10000

C11_Witness ==
    /\ BitrateReturned
    /\ vArgs = [resolution |-> "4k", fps |-> [n |-> 60, d |-> 1]]
    /\ vRet = 52500

\* The height of a probed document's first video stream
ProbedHeight(file) == file.streams[FirstVideo(file.streams)].height.v

\* C12: a successful probe classifies the height h with inclusive
\* thresholds: h <= 480 is 480p, h <= 720 is 720p, h <= 1080 is 1080p,
\* h <= 2160 is 4k, anything larger is unknown
C12_InclusiveThresholds ==
    (ProbeReturned /\ vRet.status = "ok") =>
        LET h == ProbedHeight(vArgs.file)
        IN /\ vRet.resolution \in Resolutions
           /\ vRet.resolution = "480p" <=> h <= 480
           /\ vRet.resolution = "720p" <=> (480 < h /\ h <= 720)
           /\ vRet.resolution = "1080p" <=> (720 < h /\ h <= 1080)
           /\ vRet.resolution = "4k" <=> (1080 < h /\ h <= 2160)
           /\ vRet.resolution = "unknown" <=> 2160 < h

C12_Witness ==
    /\ ProbeReturned
    /\ vRet.status = "ok"
    /\ ProbedHeight(vArgs.file) = 2160
    /\ vRet.resolution = "4k"

\* C13: the frame rate of every successful probe result is a positive number
C13_FrameRatePositive ==
    (ProbeReturned /\ vRet.status = "ok") => vRet.fps.n * vRet.fps.d > 0

\* The terminal states of a file, read from what its call logged
EndsSkippedExisting(lg) == "Skipping: Output is valid" \in Range(lg)
EndsDone(lg) == "Finished" \in Range(lg)
EndsFailed(lg) == "FFmpeg failed" \in Range(lg)

\* C14: every file whose probe succeeds ends, when its call returns, in
\* exactly one of SkippedExisting, Done and Failed, whatever its duration
C14_ProbedFileEndsTerminal ==
    [][\A f \in Paths :
          (Handles(f) /\ pc' # "aborted"
             /\ get_video_info(inTree[f]).status = "ok") =>
              Cardinality({end \in {"SkippedExisting", "Done", "Failed"} :
                  \/ end = "SkippedExisting" /\ EndsSkippedExisting(log'[f])
                  \/ end = "Done" /\ EndsDone(log'[f])
                  \/ end = "Failed" /\ EndsFailed(log'[f])}) = 1]_vars

\* What transcode_file knows of f before it looks at the output path
Probed(f) == get_video_info(inTree[f])
ReachesResume(f) == ~EarlyReturn(Probed(f))
ExistingOutputValid(f) ==
    /\ output_path(f) \in DOMAIN outTree
    /\ is_output_valid(outTree[output_path(f)], Probed(f).duration,
                       Probed(f).resolution, Probed(f).fps) = "valid"

\* C15: when the output exists and is valid, the call adds one to skipped,
\* does not invoke the encoder, and leaves the output tree, the input tree,
\* processed and failed as they were
C15_ResumeSkipChangesNothing ==
    [][\A f \in Paths :
          (Handles(f) /\ ReachesResume(f) /\ ExistingOutputValid(f)) =>
              /\ stats' = [stats EXCEPT !.skipped = @ + 1]
              /\ "ffmpeg" \notin Range(log'[f])
              /\ ~job'[f].built
              /\ outTree' = outTree
              /\ inTree' = inTree
              /\ EndsSkippedExisting(log'[f])
              /\ pc' = "scan"]_vars

C15_Witness ==
    \E f \in Paths :
        /\ EndsSkippedExisting(log[f])
        /\ stats.skipped = 1
        /\ f \in DOMAIN inTree
        /\ output_path(f) \in DOMAIN outTree
        /\ outTree[output_path(f)].origin.how = "pre"

Count(seq, x) == Cardinality({i \in 1..Len(seq) : seq[i] = x})
Precedes(seq, x, y) ==
    \E i, j \in 1..Len(seq) : i < j /\ seq[i] = x /\ seq[j] = y

ExistingOutputRejected(f) ==
    /\ output_path(f) \in DOMAIN outTree
    /\ is_output_valid(outTree[output_path(f)], Probed(f).duration,
                       Probed(f).resolution, Probed(f).fps) = "reject"

\* The call of transcode_file on f had there been no file at its output path
AsIfNoOutput(f, env) ==
    transcode_file([inT |-> inTree, outT |-> Remove(outTree, output_path(f)),
                    st |-> stats, lg |-> <<>>, abort |-> FALSE, cmd |-> NoJob],
                   f, env, run)

\* C16: the validator runs only when a file exists at the output path and at
\* most once per file; when it rejects, the output is deleted before the
\* encoder is invoked, the encoder is invoked exactly as if no output had
\* existed, and the file ends in Done or Failed, never in SkippedExisting
C16_RejectedOutputReencoded ==
    [][\A f \in Paths :
          Handles(f) =>
              /\ Count(log'[f], "Validating output file") <= 1
              /\ "Validating output file" \in Range(log'[f]) =>
                     output_path(f) \in DOMAIN outTree
              /\ (ReachesResume(f) /\ ExistingOutputRejected(f)) =>
                     /\ Count(log'[f], "Validating output file") = 1
                     /\ Count(log'[f], "ffmpeg") = 1
                     /\ Precedes(log'[f], "Overwriting", "ffmpeg")
                     /\ ~EndsSkippedExisting(log'[f])
                     /\ EndsDone(log'[f]) # EndsFailed(log'[f])
                     /\ \E env \in Envs :
                           LET R == AsIfNoOutput(f, env)
                           IN /\ inTree' = R.inT
                              /\ outTree' = R.outT
                              /\ stats' = R.st
                              /\ job'[f] = R.cmd
                              /\ (pc' = "aborted") = R.abort]_vars

C16_Witness ==
    \E f \in Paths :
        /\ Precedes(log[f], "Validating output file", "Overwriting")
        /\ Precedes(log[f], "Overwriting", "ffmpeg")
        /\ EndsDone(log[f])
        /\ output_path(f) \in DOMAIN outTree
        /\ outTree[output_path(f)].origin = [how |-> "encoded", path |-> f, run |-> run]

\* C17: within a run the encoder is invoked at most once for a source file,
\* and a file whose call has ended (Done, Failed, SkippedExisting or
\* Skipped) is not handled again: what was logged and built for it stays
C17_EncodedAtMostOnce ==
    [][\A f \in Paths :
          /\ Count(log'[f], "ffmpeg") <= 1
          /\ log[f] # <<>> => (log'[f] = log[f] /\ job'[f] = job[f])]_vars

C17_Witness ==
    \E f, g \in Paths :
        /\ f # g
        /\ EndsFailed(log[f])
        /\ Count(log[f], "ffmpeg") = 1
        /\ EndsDone(log[g])
        /\ pc = "summary"

\* The first video stream of the source at f
SourceVideo(f) == inTree[f].streams[FirstVideo(inTree[f].streams)]

ReportsHdr(vs) ==
    /\ vs.side_data_list.present
    /\ \E i \in 1..Len(vs.side_data_list.types) :
          vs.side_data_list.types[i] \in
              {"Mastering display metadata", "Content light level metadata"}

ReportedOr709(tag) == IF tag = NoTag THEN "bt709" ELSE tag

\* C18: a call that gets to the encoder builds a parameter string whose
\* transfer is smpte2084 when the stream's side data lists mastering display
\* or content light level metadata, whatever color_transfer says, and
\* otherwise the reported color_transfer or bt709; colorprim and colormatrix
\* are the reported color_primaries and color_space or bt709; and the three
\* tags are those of the probe result
C18_ColorTagsReachEncoder ==
    [][\A f \in Paths :
          (Handles(f) /\ ReachesResume(f)) =>
              /\ job'[f].built
              /\ job'[f].params.colorprim =
                     ReportedOr709(SourceVideo(f).color_primaries)
              /\ job'[f].params.transfer =
                     IF ReportsHdr(SourceVideo(f)) THEN "smpte2084"
                     ELSE ReportedOr709(SourceVideo(f).color_transfer)
              /\ job'[f].params.colormatrix =
                     ReportedOr709(SourceVideo(f).color_space)
              /\ job'[f].params.colorprim = Probed(f).color_info.colorprim
              /\ job'[f].params.transfer = Probed(f).color_info.transfer
              /\ job'[f].params.colormatrix = Probed(f).color_info.colormatrix]_vars

C18_Witness ==
    \E f \in DOMAIN inTree :
        /\ job[f].built
        /\ SourceVideo(f).color_transfer = "arib-std-b67"
        /\ SourceVideo(f).side_data_list.types =
               <<"DOVI configuration record", "Content light level metadata">>
        /\ job[f].params.transfer = "smpte2084"
        /\ job[f].params.colorprim = "bt2020"
        /\ job[f].params.colormatrix = "bt709"

\* C19: at the end of a run the output of every file that ended Done is
\* still at its output path and is the one encoded from that file
C19_DoneOutputsKept ==
    pc = "summary" =>
        \A f \in Paths :
            EndsDone(log[f]) =>
                /\ output_path(f) \in DOMAIN outTree
                /\ outTree[output_path(f)].origin =
                       [how |-> "encoded", path |-> f, run |-> run]

\* C20: at the end of a run every source counted in failed is still in the
\* quarantine directory, so the sources held there are as many as failed
C20_QuarantineKeepsAll ==
    pc = "summary" =>
        /\ \A f \in Paths :
              EndsFailed(log[f]) =>
                  /\ failed_path(f) \in DOMAIN outTree
                  /\ outTree[failed_path(f)].origin =
                         [how |-> "source", path |-> f, run |-> 0]
        /\ Cardinality({p \in DOMAIN outTree :
                            outTree[p].origin.how = "source"}) = stats.failed

====
